---- MODULE Spec2Model ----
(***************************************************************************)
(* Model of RothConversionCalculator.py: calculate_roth_conversion, the    *)
(* year-by-year projection of a 401(k) balance and a Roth balance.         *)
(*                                                                         *)
(* Python floats are modelled as exact rationals (sign, numerator,         *)
(* denominator), numerator and denominator being arbitrary-precision       *)
(* naturals kept as little-endian sequences of limbs, so that the          *)
(* projection over 51 years of the default scenario is computed exactly.   *)
(* Floating-point rounding is not modelled.                                *)
(***************************************************************************)
EXTENDS Integers, Sequences, FiniteSets, TLC

(***************************************************************************)
(* Arbitrary-precision naturals: <<>> is 0, limbs are in 0..Base-1, the    *)
(* most significant limb is last and is never 0.  The operations are       *)
(* written without recursion over the limbs (carries are looked ahead).    *)
(***************************************************************************)
Base == 1000

Max(S) == CHOOSE x \in S : \A y \in S : y <= x

\* limb i of s, 0 beyond its ends
At(s, i) == IF i >= 1 /\ i <= Len(s) THEN s[i] ELSE 0

\* s without its most significant zero limbs
Trim(s) ==
    LET nz == {i \in 1..Len(s) : s[i] # 0}
    IN  IF nz = {} THEN <<>> ELSE SubSeq(s, 1, Max(nz))

\* a Python int n >= 0 (below Base^4)
BigOfInt(n) ==
    Trim(<<n % Base, (n \div Base) % Base, (n \div (Base * Base)) % Base,
           n \div (Base * Base * Base)>>)

\* the limbs of s, each in 0..2*Base-2, with the carries of 0 or 1 resolved
Carry(s) ==
    LET carry(i) == \E j \in 1..(i - 1) :
                        /\ s[j] >= Base
                        /\ \A m \in (j + 1)..(i - 1) : s[m] = Base - 1
    IN  Trim([i \in 1..(Len(s) + 1) |->
                 (At(s, i) + (IF carry(i) THEN 1 ELSE 0)) % Base] \o <<>>)

BigAdd(a, b) ==
    LET n == IF Len(a) > Len(b) THEN Len(a) ELSE Len(b)
    IN  Carry([i \in 1..n |-> At(a, i) + At(b, i)] \o <<>>)

\* a - b for a >= b
BigSub(a, b) ==
    LET d == [i \in 1..Len(a) |-> a[i] - At(b, i)] \o <<>>
        borrow(i) == \E j \in 1..(i - 1) :
                         /\ d[j] < 0
                         /\ \A m \in (j + 1)..(i - 1) : d[m] = 0
    IN  Trim([i \in 1..Len(a) |->
                 (d[i] - (IF borrow(i) THEN 1 ELSE 0) + Base) % Base] \o <<>>)

\* -1, 0 or 1 as a < b, a = b, a > b
BigCmp(a, b) ==
    IF Len(a) < Len(b) THEN -1
    ELSE IF Len(a) > Len(b) THEN 1
    ELSE LET differ == {i \in 1..Len(a) : a[i] # b[i]}
         IN  IF differ = {} THEN 0
             ELSE IF a[Max(differ)] < b[Max(differ)] THEN -1 ELSE 1

\* the sum of a[i] * b[k + 1 - i] for i in lo..hi
RECURSIVE SumProducts(_, _, _, _, _)
SumProducts(a, b, k, lo, hi) ==
    IF lo > hi THEN 0
    ELSE IF lo = hi THEN a[lo] * b[k + 1 - lo]
    ELSE LET mid == (lo + hi) \div 2
         IN  SumProducts(a, b, k, lo, mid) + SumProducts(a, b, k, mid + 1, hi)

\* every limb keeps its low part and receives the high part of the limb below
Spill(s) ==
    [i \in 1..(Len(s) + 1) |-> (At(s, i) % Base) + (At(s, i - 1) \div Base)] \o <<>>

BigMul(a, b) ==
    IF a = <<>> \/ b = <<>> THEN <<>>
    ELSE IF a = <<1>> THEN b
    ELSE IF b = <<1>> THEN a
    ELSE LET columns ==
                 [k \in 1..(Len(a) + Len(b) - 1) |->
                     SumProducts(a, b, k,
                                 IF k > Len(b) THEN k + 1 - Len(b) ELSE 1,
                                 IF k < Len(a) THEN k ELSE Len(a))] \o <<>>
         IN  Carry(Spill(Spill(Spill(columns))))

(***************************************************************************)
(* Floats as exact rationals [neg, num, den]; zero is always Zero.         *)
(***************************************************************************)
Zero == [neg |-> FALSE, num |-> <<>>, den |-> <<1>>]

Rat(neg, num, den) ==
    IF num = <<>> THEN Zero ELSE [neg |-> neg, num |-> num, den |-> den]

Abs(n) == IF n < 0 THEN -n ELSE n

\* the float n / m, for integers n and m # 0
Frac(n, m) == Rat((n < 0) # (m < 0), BigOfInt(Abs(n)), BigOfInt(Abs(m)))

Float(n) == Frac(n, 1)

Neg(x) == Rat(~x.neg, x.num, x.den)

Add(x, y) ==
    LET same == x.den = y.den
        a == IF same THEN x.num ELSE BigMul(x.num, y.den)
        b == IF same THEN y.num ELSE BigMul(y.num, x.den)
        d == IF same THEN x.den ELSE BigMul(x.den, y.den)
    IN  IF x.neg = y.neg THEN Rat(x.neg, BigAdd(a, b), d)
        ELSE IF BigCmp(a, b) >= 0 THEN Rat(x.neg, BigSub(a, b), d)
        ELSE Rat(y.neg, BigSub(b, a), d)

Sub(x, y) == Add(x, Neg(y))

Mul(x, y) == Rat(x.neg # y.neg, BigMul(x.num, y.num), BigMul(x.den, y.den))

\* x / n for a float x and a Python int n # 0
DivInt(x, n) == Rat(x.neg # (n < 0), x.num, BigMul(x.den, BigOfInt(Abs(n))))

Eq(x, y) == Sub(x, y) = Zero

Less(x, y) == Sub(x, y).neg

Greater(x, y) == Less(y, x)

One == Float(1)

(***************************************************************************)
(* calculate_roth_conversion, statement by statement.  a is the record of  *)
(* the fourteen arguments.                                                 *)
(***************************************************************************)
\* the exclusive end of range(current_age, 91) and range(retirement_age, 91)
Horizon == 91

\* list(range(lo, hi))
Range(lo, hi) == [i \in 1..(IF hi > lo THEN hi - lo ELSE 0) |-> lo + i - 1]

\* (1 + expected_growth_rate)
GrowthFactor(a) == Add(One, a.expected_growth_rate)

\* GrowYear with the growth applied before the contribution is added
GrowYearGrowthFirst(a, balance) ==
    Add(Mul(balance, GrowthFactor(a)), a.annual_contributions)

\* one year of contributions and growth: += annual_contributions, *= (1 + rate)
GrowYear(a, balance) == Mul(Add(balance, a.annual_contributions), GrowthFactor(a))

\* for _ in range(years_to_retirement): future_401k_balance grows one year
\* (evaluated by halves, the first half to a value before the second, which
\* keeps the evaluation shallow; the result is that of the loop)
RECURSIVE CompoundYears(_, _, _)
CompoundYears(a, years, balance) ==
    IF years <= 0 THEN balance
    ELSE IF years = 1 THEN GrowYear(a, balance)
    ELSE CHOOSE result \in
             { CompoundYears(a, years - (years \div 2), half) :
                   half \in {CompoundYears(a, years \div 2, balance)} } : TRUE

\* InConversionRange without the test against conversion_end_age
InConversionRangeFromStart(a, age) == a.conversion_start_age <= age

\* InConversionRange without the test against conversion_start_age
InConversionRangeToEnd(a, age) == age <= a.conversion_end_age

\* conversion_start_age <= age <= conversion_end_age
InConversionRange(a, age) ==
    a.conversion_start_age <= age /\ age <= a.conversion_end_age

\* Divisor with the window counted without its last age
DivisorExclusive(a) == a.conversion_end_age - a.conversion_start_age

\* the divisor of desired_conversion_amount
Divisor(a) == a.conversion_end_age - a.conversion_start_age + 1

\* AnnualConversion without the clamp to the balance
AnnualConversionUnclamped(a, balance) ==
    DivInt(a.desired_conversion_amount,
           a.conversion_end_age - a.conversion_start_age + 1)

\* the equal yearly share, clamped to what the 401(k) holds
AnnualConversion(a, balance) ==
    LET annual_conversion == DivInt(a.desired_conversion_amount, Divisor(a))
    IN  IF Greater(annual_conversion, balance) THEN balance ELSE annual_conversion

\* TaxOnConversion with the year of retirement still taxed at current_tax_rate
TaxOnConversionAtRetirement(a, age, annual_conversion) ==
    IF age <= a.retirement_age
    THEN Mul(annual_conversion, a.current_tax_rate)
    ELSE Mul(annual_conversion, a.future_tax_rate)

\* TaxOnConversion with current_tax_rate at every age
TaxOnConversionCurrent(a, age, annual_conversion) ==
    Mul(annual_conversion, a.current_tax_rate)

\* current_tax_rate before retirement, future_tax_rate from retirement on
TaxOnConversion(a, age, annual_conversion) ==
    IF age < a.retirement_age
    THEN Mul(annual_conversion, a.current_tax_rate)
    ELSE Mul(annual_conversion, a.future_tax_rate)

\* NetConverted without the floor at 0
NetConvertedUnfloored(annual_conversion, tax_on_conversion) ==
    Sub(annual_conversion, tax_on_conversion)

\* annual_conversion - tax_on_conversion, floored at 0
NetConverted(annual_conversion, tax_on_conversion) ==
    LET net_converted == Sub(annual_conversion, tax_on_conversion)
    IN  IF Less(net_converted, Zero) THEN Zero ELSE net_converted

\* One iteration of the loop over range(retirement_age, 91), from the 401(k)
\* balance k and the Roth balance r.  raised: the division raised
\* ZeroDivisionError; moved: the amounts subtracted from the 401(k).
DistributeYear(a, age, k, r) ==
    IF InConversionRange(a, age)
    THEN IF Divisor(a) = 0
         THEN [raised |-> TRUE, k |-> k, r |-> r, moved |-> <<>>]
         ELSE LET annual_conversion == AnnualConversion(a, k)
                  tax_on_conversion == TaxOnConversion(a, age, annual_conversion)
                  net_converted == NetConverted(annual_conversion, tax_on_conversion)
              IN  [raised |-> FALSE,
                   k |-> Mul(Sub(k, annual_conversion), GrowthFactor(a)),
                   r |-> Mul(Add(r, net_converted), GrowthFactor(a)),
                   moved |-> <<[age |-> age, amount |-> annual_conversion]>>]
    ELSE [raised |-> FALSE,
          k |-> Mul(k, GrowthFactor(a)),
          r |-> Mul(r, GrowthFactor(a)),
          moved |-> <<>>]

(***************************************************************************)
(* The function as a whole: the locals after each loop, and the result.    *)
(* st holds current_401k (k), roth_balance (r), the two balance lists (ks, *)
(* rs) and whether the division raised.  Each year is evaluated to a value *)
(* before the next one starts.                                             *)
(***************************************************************************)
\* the loop over range(current_age, retirement_age), from loop variable n
RECURSIVE GrowLoop(_, _, _)
GrowLoop(a, n, st) ==
    IF n >= a.retirement_age THEN st
    ELSE CHOOSE out \in
             { GrowLoop(a, n + 1, next) :
                   next \in { [st EXCEPT !.k = GrowYear(a, st.k),
                                         !.ks = Append(@, GrowYear(a, st.k)),
                                         !.rs = Append(@, st.r)] } } : TRUE

\* the loop over range(retirement_age, 91), from loop variable n
RECURSIVE DistributeLoop(_, _, _)
DistributeLoop(a, n, st) ==
    IF n >= Horizon \/ st.raised THEN st
    ELSE CHOOSE out \in
             { DistributeLoop(a, n + 1, next) :
                   next \in { LET y == DistributeYear(a, n, st.k, st.r)
                              IN  IF y.raised THEN [st EXCEPT !.raised = TRUE]
                                  ELSE [st EXCEPT !.k = y.k, !.r = y.r,
                                                  !.ks = Append(@, y.k),
                                                  !.rs = Append(@, y.r)] } } : TRUE

\* what calculate_roth_conversion(a) returns, or that it raised
calculate_roth_conversion(a) ==
    LET st == DistributeLoop(a, a.retirement_age,
                  GrowLoop(a, a.current_age,
                      [k |-> a.current_401k_balance, r |-> Zero,
                       ks |-> <<>>, rs |-> <<>>, raised |-> FALSE]))
    IN  [raised |-> st.raised,
         timeline_ages |-> Range(a.current_age, Horizon),
         timeline_401k_balances |-> st.ks,
         timeline_roth_balances |-> st.rs]

(***************************************************************************)
(* The state: the arguments, the locals of calculate_roth_conversion, the  *)
(* position in it, and the record of the amounts moved out of the 401(k).  *)
(***************************************************************************)
VARIABLES args, pc, age, future_401k_balance, timeline_ages,
          timeline_401k_balances, timeline_roth_balances, roth_balance,
          current_401k, conversions

vars == <<args, pc, age, future_401k_balance, timeline_ages,
          timeline_401k_balances, timeline_roth_balances, roth_balance,
          current_401k, conversions>>

\* LoopOrElse for a range that includes its end
LoopOrElseInclusive(n, hi, loop, after) == IF n <= hi THEN loop ELSE after

\* where control goes when the loop over range(lo, hi) is at loop variable n
LoopOrElse(n, hi, loop, after) == IF n < hi THEN loop ELSE after

\* where the loop over range(retirement_age, 91) starts, or the return
EnterDistribute(a) ==
    LoopOrElse(a.retirement_age, Horizon, "distribute", "return")

Entry(a) ==
    /\ args = a
    /\ pc = "compound"
    /\ age = a.current_age
    /\ future_401k_balance = a.current_401k_balance
    /\ timeline_ages = <<>>
    /\ timeline_401k_balances = <<>>
    /\ timeline_roth_balances = <<>>
    /\ roth_balance = Zero
    /\ current_401k = Zero
    /\ conversions = <<>>

\* lines 35-39: the compounding until retirement (its result is not used)
Compound ==
    /\ pc = "compound"
    /\ future_401k_balance' =
           CompoundYears(args, args.retirement_age - args.current_age,
                         args.current_401k_balance)
    /\ pc' = "timeline"
    /\ UNCHANGED <<args, age, timeline_ages, timeline_401k_balances,
                   timeline_roth_balances, roth_balance, current_401k,
                   conversions>>

\* lines 51-56: the age axis, the empty balance lists, the starting balances
BuildTimeline ==
    /\ pc = "timeline"
    /\ timeline_ages' = Range(args.current_age, Horizon)
    /\ timeline_401k_balances' = <<>>
    /\ timeline_roth_balances' = <<>>
    /\ roth_balance' = Zero
    /\ current_401k' = args.current_401k_balance
    /\ age' = IF args.current_age < args.retirement_age
              THEN args.current_age ELSE args.retirement_age
    /\ pc' = LoopOrElse(args.current_age, args.retirement_age, "grow",
                        EnterDistribute(args))
    /\ UNCHANGED <<args, future_401k_balance, conversions>>

\* lines 59-63: one iteration of the loop over range(current_age, retirement_age)
Grow ==
    /\ pc = "grow"
    /\ current_401k' = GrowYear(args, current_401k)
    /\ timeline_401k_balances' = Append(timeline_401k_balances, current_401k')
    /\ timeline_roth_balances' = Append(timeline_roth_balances, roth_balance)
    /\ age' = age + 1
    /\ pc' = LoopOrElse(age + 1, args.retirement_age, "grow",
                        EnterDistribute(args))
    /\ UNCHANGED <<args, future_401k_balance, timeline_ages, roth_balance,
                   conversions>>

\* lines 66-97: one iteration of the loop over range(retirement_age, 91)
Distribute ==
    /\ pc = "distribute"
    /\ LET y == DistributeYear(args, age, current_401k, roth_balance)
       IN  IF y.raised
           THEN /\ pc' = "raised"
                /\ UNCHANGED <<age, current_401k, roth_balance,
                               timeline_401k_balances, timeline_roth_balances,
                               conversions>>
           ELSE /\ current_401k' = y.k
                /\ roth_balance' = y.r
                /\ timeline_401k_balances' = Append(timeline_401k_balances, y.k)
                /\ timeline_roth_balances' = Append(timeline_roth_balances, y.r)
                /\ conversions' = conversions \o y.moved
                /\ age' = age + 1
                /\ pc' = LoopOrElse(age + 1, Horizon, "distribute", "return")
    /\ UNCHANGED <<args, future_401k_balance, timeline_ages>>

\* line 99: return timeline_ages, timeline_401k_balances, timeline_roth_balances
Return ==
    /\ pc = "return"
    /\ pc' = "done"
    /\ UNCHANGED <<args, age, future_401k_balance, timeline_ages,
                   timeline_401k_balances, timeline_roth_balances,
                   roth_balance, current_401k, conversions>>

Next == Compound \/ BuildTimeline \/ Grow \/ Distribute \/ Return

(***************************************************************************)
(* The arguments.  main() passes the sidebar's values; the function itself *)
(* checks nothing, so the runs also start from arguments the sidebar       *)
(* would refuse (a retirement age past 90, a negative growth rate, an      *)
(* inverted conversion range).                                             *)
(***************************************************************************)
\* the youngest current_age tried is Horizon - 1 - MaxYears
MaxYears == 2

\* the oldest retirement_age tried is Horizon + MaxOver
MaxOver == 1

\* conversion_end_age is tried down to conversion_start_age - MaxInverted
MaxInverted == 1

Ages ==
    { g \in [current_age : (Horizon - 1 - MaxYears)..(Horizon - 1),
             retirement_age : (Horizon - 1 - MaxYears)..(Horizon + MaxOver),
             conversion_start_age : (Horizon - 1 - MaxYears)..Horizon,
             conversion_end_age : (Horizon - 1 - MaxYears - MaxInverted)..Horizon] :
        /\ g.retirement_age >= g.current_age
        /\ g.conversion_start_age >= g.current_age
        /\ g.conversion_end_age >= g.conversion_start_age - MaxInverted }

\* annual_contributions and expected_growth_rate
Markets ==
    { <<Float(0), Float(0)>>, <<Float(10), Frac(1, 2)>>,
      <<Float(0), Float(-1)>>, <<Float(10), Float(-2)>> }

ConversionAmounts == {Float(0), Float(90), Float(300)}

TaxRates == {Frac(1, 4), Float(2)}

Money ==
    { [current_401k_balance |-> Float(100),
       annual_contributions |-> m[1],
       expected_growth_rate |-> m[2],
       desired_conversion_amount |-> d,
       future_tax_rate |-> t] :
          m \in Markets, d \in ConversionAmounts, t \in TaxRates }

\* the sidebar's defaults for the inputs the function does not consume
DefaultUnused ==
    [annual_spending_in_retirement |-> Float(60000),
     pension_amount |-> Float(0),
     social_security_age |-> 67,
     social_security_amount |-> Float(25000),
     current_tax_rate |-> Frac(22, 100)]

Args(g, m, u) ==
    [current_age |-> g.current_age,
     retirement_age |-> g.retirement_age,
     current_401k_balance |-> m.current_401k_balance,
     annual_contributions |-> m.annual_contributions,
     expected_growth_rate |-> m.expected_growth_rate,
     annual_spending_in_retirement |-> u.annual_spending_in_retirement,
     pension_amount |-> u.pension_amount,
     social_security_age |-> u.social_security_age,
     social_security_amount |-> u.social_security_amount,
     desired_conversion_amount |-> m.desired_conversion_amount,
     conversion_start_age |-> g.conversion_start_age,
     conversion_end_age |-> g.conversion_end_age,
     future_tax_rate |-> m.future_tax_rate,
     current_tax_rate |-> u.current_tax_rate]

\* the sidebar's default values: what Calculate computes when nothing is edited
Scenario ==
    Args([current_age |-> 40, retirement_age |-> 65,
          conversion_start_age |-> 60, conversion_end_age |-> 70],
         [current_401k_balance |-> Float(200000),
          annual_contributions |-> Float(19000),
          expected_growth_rate |-> Frac(6, 100),
          desired_conversion_amount |-> Float(100000),
          future_tax_rate |-> Frac(25, 100)],
         DefaultUnused)

Init ==
    \/ Entry(Scenario)
    \/ \E g \in Ages, m \in Money : Entry(Args(g, m, DefaultUnused))

Spec == Init /\ [][Next]_vars

\* other values for the inputs the function does not consume
OtherUnused ==
    { [annual_spending_in_retirement |-> x[1],
       pension_amount |-> x[2],
       social_security_age |-> x[3],
       social_security_amount |-> x[4],
       current_tax_rate |-> c] :
          x \in { <<Float(60000), Float(0), 67, Float(25000)>>,
                  <<Float(0), Float(1000), 62, Float(0)>> },
          c \in {Frac(22, 100), Float(0), Float(3)} }

InitUnused ==
    \E g \in Ages, u \in OtherUnused :
        \E m \in {n \in Money : /\ n.desired_conversion_amount = Float(90)
                                /\ n.expected_growth_rate = Frac(1, 2)} :
            Entry(Args(g, m, u))

SpecUnused == InitUnused /\ [][Next]_vars

(***************************************************************************)
(* Vocabulary of the properties.                                           *)
(***************************************************************************)
\* the constraints the specification puts on the arguments
SpecValid(a) ==
    /\ a.current_age >= 18
    /\ a.retirement_age >= a.current_age
    /\ a.conversion_start_age >= a.current_age
    /\ a.conversion_end_age >= a.conversion_start_age
    /\ ~a.current_401k_balance.neg
    /\ ~a.annual_contributions.neg
    /\ ~a.desired_conversion_amount.neg

AtLeast(x, y) == ~Less(x, y)

\* the three sequences all have n elements
Lengths(n) ==
    /\ Len(timeline_ages) = n
    /\ Len(timeline_401k_balances) = n
    /\ Len(timeline_roth_balances) = n

\* desired_conversion_amount split equally over the inclusive window
Share(a) ==
    DivInt(a.desired_conversion_amount,
           a.conversion_end_age - a.conversion_start_age + 1)

\* <<f(b), f(f(b)), ...>>, n elements, for f(p) = (p + contribution) * (1 + rate)
RECURSIVE Iterates(_, _, _, _)
Iterates(b, contribution, rate, n) ==
    IF n <= 0 THEN <<>>
    ELSE LET shorter == Iterates(b, contribution, rate, n - 1)
             p == IF n = 1 THEN b ELSE shorter[n - 1]
         IN  Append(shorter, Mul(Add(p, contribution), Add(Float(1), rate)))

RECURSIVE SumAmounts(_)
SumAmounts(moved) ==
    IF moved = <<>> THEN Zero
    ELSE Add(Head(moved).amount, SumAmounts(Tail(moved)))

SameFloats(s, t) ==
    /\ Len(s) = Len(t)
    /\ \A i \in 1..Len(s) : Eq(s[i], t[i])

\* C1 as stated: for every argument list the specification allows, the three
\* returned sequences have 91 - current_age elements.
C1_Original ==
    pc = "done" /\ SpecValid(args) => Lengths(91 - args.current_age)

\* C1, amended: for every argument list the specification allows whose
\* retirement_age is at most 91, the three returned sequences have
\* 91 - current_age elements.
C1_Lengths ==
    pc = "done" /\ SpecValid(args) /\ args.retirement_age <= 91
        => Lengths(91 - args.current_age)

C1_Witness ==
    /\ pc = "done"
    /\ SpecValid(args)
    /\ args.current_age < args.retirement_age
    /\ args.retirement_age < 91
    /\ Lengths(91 - args.current_age)

\* C2 as stated: for every argument list the specification allows, whatever
\* the growth rate, no recorded 401(k) balance is negative.
C2_Original ==
    SpecValid(args) =>
        \A t \in 1..Len(timeline_401k_balances) :
            ~timeline_401k_balances[t].neg

\* C2, amended: for every argument list the specification allows whose
\* growth rate is at least -1, no recorded 401(k) balance is negative.
C2_NonNegative ==
    SpecValid(args) /\ AtLeast(args.expected_growth_rate, Float(-1)) =>
        \A t \in 1..Len(timeline_401k_balances) :
            ~timeline_401k_balances[t].neg

\* a finished run in which a conversion was cut down to the balance
C2_Witness ==
    /\ pc = "done"
    /\ SpecValid(args)
    /\ Greater(args.expected_growth_rate, Float(-1))
    /\ \E i \in 1..Len(conversions) :
           Less(conversions[i].amount, Share(args))
    /\ \E t \in 1..Len(timeline_401k_balances) :
           timeline_401k_balances[t] = Zero

\* C3: the function never raises: every division it executes has a divisor
\* of at least 1, also when conversion_end_age < conversion_start_age.
C3_NeverRaises ==
    /\ pc # "raised"
    /\ conversions # <<>> =>
           args.conversion_end_age - args.conversion_start_age + 1 >= 1

\* a run that returned although the divisor is 0 and ages of the loop are
\* past conversion_start_age
C3_Witness ==
    /\ pc = "done"
    /\ args.conversion_end_age = args.conversion_start_age - 1
    /\ args.retirement_age <= args.conversion_start_age
    /\ args.conversion_start_age < 90
    /\ Lengths(91 - args.current_age)

\* C4 as stated: desired_conversion_amount is the total converted: when the
\* window is not inverted and the clamp never binds, every amount moved out
\* of the 401(k) is the equal share and the amounts add up to
\* desired_conversion_amount.
C4_TotalConverted ==
    /\ pc = "done"
    /\ SpecValid(args)
    /\ AtLeast(args.current_401k_balance, Share(args))
    /\ \A t \in 1..Len(timeline_401k_balances) :
           AtLeast(timeline_401k_balances[t], Share(args))
    => /\ \A i \in 1..Len(conversions) :
              Eq(conversions[i].amount, Share(args))
       /\ Eq(SumAmounts(conversions), args.desired_conversion_amount)

\* C5 as stated: if desired_conversion_amount is 0, every recorded Roth
\* balance is 0, whatever the window, the tax rates and the growth rate.
C5_Original ==
    SpecValid(args) /\ args.desired_conversion_amount = Zero =>
        \A t \in 1..Len(timeline_roth_balances) :
            timeline_roth_balances[t] = Zero

\* C5, amended: if desired_conversion_amount is 0 and either the growth rate
\* is at least -1 or future_tax_rate is at most 1, every recorded Roth
\* balance is 0.
C5_AllZero ==
    /\ SpecValid(args)
    /\ args.desired_conversion_amount = Zero
    /\ \/ AtLeast(args.expected_growth_rate, Float(-1))
       \/ AtLeast(Float(1), args.future_tax_rate)
    => \A t \in 1..Len(timeline_roth_balances) :
           timeline_roth_balances[t] = Zero

\* a finished run with nothing to convert in which the clamp made the
\* amount converted negative
C5_Witness ==
    /\ pc = "done"
    /\ SpecValid(args)
    /\ args.desired_conversion_amount = Zero
    /\ AtLeast(Float(1), args.future_tax_rate)
    /\ \E i \in 1..Len(conversions) : conversions[i].amount.neg
    /\ Len(timeline_roth_balances) >= 2

\* the arguments with the five inputs the claim calls unused set to the
\* sidebar's defaults
Consumed(a) ==
    [a EXCEPT !.annual_spending_in_retirement = Float(60000),
              !.pension_amount = Float(0),
              !.social_security_age = 67,
              !.social_security_amount = Float(25000),
              !.current_tax_rate = Frac(22, 100)]

IsScenario(a) ==
    /\ a.current_age = 40
    /\ a.retirement_age = 65
    /\ Eq(a.current_401k_balance, Float(200000))
    /\ Eq(a.annual_contributions, Float(19000))
    /\ Eq(a.expected_growth_rate, Frac(6, 100))
    /\ Eq(a.desired_conversion_amount, Float(100000))
    /\ a.conversion_start_age = 60
    /\ a.conversion_end_age = 70
    /\ Eq(a.future_tax_rate, Frac(25, 100))
    /\ Eq(a.current_tax_rate, Frac(22, 100))

C10_Distribution ==
    args.retirement_age >= args.current_age =>
        \A i \in (args.retirement_age - args.current_age + 1)
                     ..Len(timeline_401k_balances) :
            LET a == args.current_age + i - 1
                P == IF i = 1 THEN args.current_401k_balance
                     ELSE timeline_401k_balances[i - 1]
                R == IF i = 1 THEN Zero ELSE timeline_roth_balances[i - 1]
                g == Add(Float(1), args.expected_growth_rate)
                moved == {j \in 1..Len(conversions) : conversions[j].age = a}
            IN  IF args.conversion_start_age <= a /\ a <= args.conversion_end_age
                THEN LET c == IF Less(P, Share(args)) THEN P ELSE Share(args)
                         net == Sub(c, Mul(c, args.future_tax_rate))
                         added == IF Less(net, Zero) THEN Zero ELSE net
                     IN  /\ Eq(timeline_401k_balances[i], Mul(Sub(P, c), g))
                         /\ Eq(timeline_roth_balances[i], Mul(Add(R, added), g))
                         /\ Cardinality(moved) = 1
                         /\ \A j \in moved :
                                /\ Eq(conversions[j].amount, c)
                                /\ AtLeast(P, conversions[j].amount)
                         /\ ~added.neg
                ELSE /\ Eq(timeline_401k_balances[i], Mul(P, g))
                     /\ Eq(timeline_roth_balances[i], Mul(R, g))
                     /\ moved = {}

\* a finished run with years inside and outside the window, a conversion cut
\* down to the balance and one whose tax exceeds it
C10_Witness ==
    /\ pc = "done"
    /\ SpecValid(args)
    /\ args.retirement_age <= 90
    /\ conversions # <<>>
    /\ Len(conversions) < 91 - args.retirement_age
    /\ Greater(args.future_tax_rate, Float(1))
    /\ \E j \in 1..Len(conversions) :
           /\ Less(conversions[j].amount, Share(args))
           /\ Greater(conversions[j].amount, Zero)
    /\ timeline_roth_balances[Len(timeline_roth_balances)] = Zero

====
